---------------------------- MODULE Spec2Model ----------------------------
(***************************************************************************)
(* A model of gorror (src/gorror.go): the generator of Go error types from *)
(* template specifications, and the run-time behaviour of the code it      *)
(* generates.                                                              *)
(*                                                                         *)
(* Text is modelled as a sequence of one-character strings, so that the    *)
(* prefix tests, the placeholder pattern and the textual replacement of    *)
(* parseTemplate, and the rune operations of structName, are computed on   *)
(* characters as the code computes them.  The emitted Go text is modelled  *)
(* as the sequence of declarations the Printf calls write (its abstract    *)
(* syntax), one record per declaration group.                              *)
(***************************************************************************)
EXTENDS Naturals, Sequences, FiniteSets, TLC

VARIABLES
    g,        \* the Generator: configuration, collected specs, output buffer
    pc,       \* position of the run of main / of the specification at hand
    idx,      \* index of the next spec of main's loop over g.specs
    out,      \* the written output file: Absent, or the text written
    warned,   \* whether format() logged its warning
    nameOut,  \* result of the naming functions applied to g.specs[1].name
    tmplIn,   \* a raw template handed to parseTemplate
    tmplOut,  \* the result of parseTemplate(tmplIn)
    src,      \* the text format() returned to main
    heap,     \* run time: the error values allocated by the generated program
    ret       \* run time: the last call made and what it returned

vars == <<g, pc, idx, out, warned, src, nameOut, tmplIn, tmplOut, heap, ret>>

Absent == "absent"

(***************************************************************************)
(* Characters                                                              *)
(***************************************************************************)
Lower == <<"a","b","c","d","e","f","g","h","i","j","k","l","m",
           "n","o","p","q","r","s","t","u","v","w","x","y","z">>

Upper == <<"A","B","C","D","E","F","G","H","I","J","K","L","M",
           "N","O","P","Q","R","S","T","U","V","W","X","Y","Z">>

Digits == {"0","1","2","3","4","5","6","7","8","9"}

Range(s) == {s[i] : i \in 1..Len(s)}

Letters == Range(Lower) \cup Range(Upper)

IsUpper(c) == c \in Range(Upper)

IsLower(c) == c \in Range(Lower)

\* unicode.ToUpper / unicode.ToLower: a rune without a case maps to itself.
ToUpper(c) ==
    IF IsLower(c) THEN Upper[CHOOSE i \in 1..Len(Lower) : Lower[i] = c] ELSE c

ToLower(c) ==
    IF IsUpper(c) THEN Lower[CHOOSE i \in 1..Len(Upper) : Upper[i] = c] ELSE c

\* strings.HasPrefix, strings.HasSuffix, strings.TrimPrefix, strings.TrimSuffix
HasPrefix(s, p) == Len(p) <= Len(s) /\ SubSeq(s, 1, Len(p)) = p

HasSuffix(s, p) == Len(p) <= Len(s) /\ SubSeq(s, Len(s) - Len(p) + 1, Len(s)) = p

TrimPrefix(s, p) == IF HasPrefix(s, p) THEN SubSeq(s, Len(p) + 1, Len(s)) ELSE s

TrimSuffix(s, p) == IF HasSuffix(s, p) THEN SubSeq(s, 1, Len(s) - Len(p)) ELSE s

\* All sequences over S of length at most n.
RECURSIVE SeqsUpTo(_, _)
SeqsUpTo(S, n) ==
    IF n = 0 THEN {<<>>}
    ELSE LET shorter == SeqsUpTo(S, n - 1)
         IN  shorter \cup {Append(s, c) : s \in shorter, c \in S}

(***************************************************************************)
(* Naming policy: Generator.structName and the constructor name            *)
(***************************************************************************)
\* strings.Title's isSeparator on the characters of the model: ASCII
\* letters, digits and the underscore are not separators.
isSeparator(c) == ~(c \in Letters \/ c \in Digits \/ c = "_")

\* strings.Title: the rune after a separator (or at the start) is mapped to
\* its title case, every other rune is kept.
Title(s) ==
    [i \in 1..Len(s) |->
        IF (IF i = 1 THEN TRUE ELSE isSeparator(s[i - 1]))
        THEN ToUpper(s[i]) ELSE s[i]]

structNameNoFlip(gen, specName) ==
    LET rest == Tail(specName)
    IN  <<specName[1]>> \o
        (IF Len(gen.specSuffix) > 0 THEN TrimSuffix(rest, gen.specSuffix) ELSE rest)

structNameTrimWhole(gen, specName) ==
    LET flipped == <<IF gen.makePub THEN ToUpper(specName[1])
                     ELSE ToLower(specName[1])>> \o Tail(specName)
    IN  IF Len(gen.specSuffix) > 0 THEN TrimSuffix(flipped, gen.specSuffix)
        ELSE flipped

structName(gen, specName) ==
    LET first == IF gen.makePub THEN ToUpper(specName[1])
                 ELSE ToLower(specName[1])
        rest  == Tail(specName)
    IN  <<first>> \o
        (IF Len(gen.specSuffix) > 0 THEN TrimSuffix(rest, gen.specSuffix) ELSE rest)

constPrefix(gen) == IF gen.makePub THEN <<"N","e","w">> ELSE <<"n","e","w">>

ctorNameNoTitle(gen, sName) == constPrefix(gen) \o sName

\* The constructor's identifier: Printf("func %s%s(", constPrefix, strings.Title(structName))
ctorName(gen, sName) == constPrefix(gen) \o Title(sName)

(***************************************************************************)
(* Placeholder pattern tmplRE and parseTemplate                            *)
(***************************************************************************)
OptWrap == 0
NoWrap == 1
MustWrap == 2

\* The character at position k, or "" past either end of the text.
At(s, k) == IF k \in 1..Len(s) THEN s[k] ELSE ""

IdentStart == Letters \cup {"_"}

IdentChars == IdentStart \cup Digits

\* The three character classes of tmplRE.
AccSet == Letters \cup Digits \cup {"_", ".", "[", "]"}

TypeSet == Letters \cup Digits \cup {"_", "."}

VerbSet == Letters \cup Digits \cup {"#", ".", "+"}

\* The end of the longest run of characters of class C starting at i (a
\* greedy +; every class is followed in tmplRE by a character outside it,
\* so the greedy run is the only way to match).
RECURSIVE RunEnd(_, _, _)
RunEnd(s, i, C) == IF At(s, i) \in C THEN RunEnd(s, i + 1, C) ELSE i

NoMatch == [ok |-> FALSE]

\* tmplRE anchored at position i:
\*   {{([A-Za-z0-9_\.\[\]]+) (\*?[A-Za-z0-9_\.]+) (%[A-Za-z0-9#\.\+]+)}}
MatchAt(s, i) ==
    LET a0 == i + 2
        a1 == RunEnd(s, a0, AccSet)
        t0 == a1 + 1
        t0s == IF At(s, t0) = "*" THEN t0 + 1 ELSE t0
        t1 == RunEnd(s, t0s, TypeSet)
        v0 == t1 + 1
        v1 == RunEnd(s, v0 + 1, VerbSet)
    IN  IF /\ At(s, i) = "{" /\ At(s, i + 1) = "{"
           /\ a1 > a0 /\ At(s, a1) = " "
           /\ t1 > t0s /\ At(s, t1) = " "
           /\ At(s, v0) = "%" /\ v1 > v0 + 1
           /\ At(s, v1) = "}" /\ At(s, v1 + 1) = "}"
        THEN [ok |-> TRUE, pos |-> i, end |-> v1 + 1,
              all |-> SubSeq(s, i, v1 + 1),
              expr |-> SubSeq(s, a0, a1 - 1),
              typ |-> SubSeq(s, t0, t1 - 1),
              verb |-> SubSeq(s, v0, v1 - 1)]
        ELSE NoMatch

\* tmplRE.FindAllStringSubmatch(s, -1): the leftmost non-overlapping matches.
RECURSIVE FindFrom(_, _)
FindFrom(s, i) ==
    IF i > Len(s) THEN <<>>
    ELSE LET m == MatchAt(s, i)
         IN  IF m.ok THEN <<m>> \o FindFrom(s, m.end + 1)
             ELSE FindFrom(s, i + 1)

FindAllStringSubmatch(s) == FindFrom(s, 1)

\* strings.Index: the first position where old occurs in s, 0 when none.
Index(s, old) ==
    LET hits == {i \in 1..(Len(s) + 1) :
                    i + Len(old) - 1 <= Len(s) /\ SubSeq(s, i, i + Len(old) - 1) = old}
    IN  IF hits = {} THEN 0 ELSE CHOOSE i \in hits : \A j \in hits : i <= j

\* strings.Replace(s, old, new, 1): the first occurrence of old, if any.
Replace1(s, old, new) ==
    LET i == Index(s, old)
    IN  IF i = 0 THEN s
        ELSE SubSeq(s, 1, i - 1) \o new \o SubSeq(s, i + Len(old), Len(s))

\* parser.ParseExpr on an accessor, a text over AccSet: the position after
\* the primary expression read from position i, or 0 for a syntax error.
\* The operands are an identifier or a number; the suffixes are .ident and
\* [expr].  A text starting with "[" (an array type) has no identifier root
\* and is fatal whether or not it parses; it is reported as an error here.
RECURSIVE ParsePrimary(_, _), ParseSuffixes(_, _)
ParsePrimary(s, i) ==
    LET c == At(s, i)
    IN  IF c \in IdentStart THEN ParseSuffixes(s, RunEnd(s, i, IdentChars))
        ELSE IF c \in Digits THEN
            LET j == RunEnd(s, i, Digits)
                k == IF At(s, j) = "." THEN RunEnd(s, j + 1, Digits) ELSE j
            IN  IF At(s, k) \in IdentStart THEN 0 ELSE ParseSuffixes(s, k)
        ELSE IF c = "." /\ At(s, i + 1) \in Digits THEN
            LET k == RunEnd(s, i + 1, Digits)
            IN  IF At(s, k) \in IdentStart THEN 0 ELSE ParseSuffixes(s, k)
        ELSE 0

ParseSuffixes(s, j) ==
    LET c == At(s, j)
    IN  IF c = "." THEN
            IF At(s, j + 1) \in IdentStart
            THEN ParseSuffixes(s, RunEnd(s, j + 1, IdentChars))
            ELSE 0
        ELSE IF c = "[" THEN
            LET k == ParsePrimary(s, j + 1)
            IN  IF k # 0 /\ At(s, k) = "]" THEN ParseSuffixes(s, k + 1) ELSE 0
        ELSE j

\* err == nil of parser.ParseExpr(fExpr)
ParseExprOK(s) == ParsePrimary(s, 1) = Len(s) + 1

\* findExprRoot of the parsed accessor: selector and index expressions are
\* walked down their X, so the root is the leftmost operand when that is an
\* identifier, and nil (here <<>>) when it is a literal.
findExprRoot(s) ==
    IF At(s, 1) \in IdentStart THEN SubSeq(s, 1, RunEnd(s, 1, IdentChars) - 1)
    ELSE <<>>

\* The loop of parseTemplate, were a bad accessor skipped and not fatal.
RECURSIVE parseLoopSkipsBad(_, _, _, _)
parseLoopSkipsBad(matches, k, fields, tmplStr) ==
    IF k > Len(matches) THEN [fatal |-> FALSE, fields |-> fields, fmt |-> tmplStr]
    ELSE LET m == matches[k]
         IN  IF ~ParseExprOK(m.expr) \/ findExprRoot(m.expr) = <<>>
             THEN parseLoopSkipsBad(matches, k + 1, fields, tmplStr)
             ELSE parseLoopSkipsBad(matches, k + 1,
                      Append(fields, [name |-> findExprRoot(m.expr), typ |-> m.typ,
                                      fmt |-> m.verb, val |-> m.expr]),
                      Replace1(tmplStr, m.all, m.verb))

\* The loop of parseTemplate over the matches; log.Fatal ends the process.
RECURSIVE parseLoop(_, _, _, _)
parseLoop(matches, k, fields, tmplStr) ==
    IF k > Len(matches) THEN [fatal |-> FALSE, fields |-> fields, fmt |-> tmplStr]
    ELSE LET m == matches[k]
         IN  IF ~ParseExprOK(m.expr) \/ findExprRoot(m.expr) = <<>>
             THEN [fatal |-> TRUE, fields |-> <<>>, fmt |-> <<>>]
             ELSE parseLoop(matches, k + 1,
                      Append(fields, [name |-> findExprRoot(m.expr), typ |-> m.typ,
                                      fmt |-> m.verb, val |-> m.expr]),
                      Replace1(tmplStr, m.all, m.verb))

WrapPrefix == <<"w","r","a","p",":">>

NoWrapPrefix == <<"n","o","w","r","a","p",":">>

\* The wrap mode and the template left after the switch on the prefix.
wrapModeOf(template) ==
    IF HasPrefix(template, WrapPrefix)
    THEN [wrap |-> MustWrap, rest |-> TrimPrefix(template, WrapPrefix)]
    ELSE IF HasPrefix(template, NoWrapPrefix)
    THEN [wrap |-> NoWrap, rest |-> TrimPrefix(template, NoWrapPrefix)]
    ELSE [wrap |-> OptWrap, rest |-> template]

parseTemplate(template) ==
    LET pm == wrapModeOf(template)
        r  == parseLoop(FindAllStringSubmatch(pm.rest), 1, <<>>, pm.rest)
    IN  [fatal |-> r.fatal, wrap |-> pm.wrap, fields |-> r.fields, fmt |-> r.fmt]

(***************************************************************************)
(* Declaration synthesizer: Generator.header and Generator.generate        *)
(***************************************************************************)
CauseFmt == <<":"," ","%","v">>

TypeName == <<"E","r","r">>

ErrorType == <<"e","r","r","o","r">>

\* What header() writes after the package clause and the imports: the
\* cause holder _errWrap with its Unwrap method, then the stub of Error()
\* on the sentinel type (compatIs) or the IsIn method.
header(gen) ==
    [kind |-> "header", errWrap |-> TRUE, unwrap |-> TRUE,
     errorStub |-> gen.compatIs, isIn |-> ~gen.compatIs]

\* The struct's members after the embedded holder: one per field.
members(template) ==
    [i \in 1..Len(template.fields) |->
        [name |-> template.fields[i].name, typ |-> template.fields[i].typ]]

\* The arguments e.<val> of a Sprintf call, one per field.
fieldArgs(template) ==
    [i \in 1..Len(template.fields) |-> template.fields[i].val]

structDecl(template, sName) ==
    [name |-> sName, embeds |-> template.wrap # NoWrap, members |-> members(template)]

\* The constructor: its parameters (the fields, then err for MustWrap) and
\* the composite literal it returns (the holder first, then the fields).
ctorDeclNilHolder(gen, template, sName) ==
    [name     |-> ctorName(gen, sName),
     params   |-> members(template),
     errParam |-> template.wrap = MustWrap,
     holder   |-> IF template.wrap = MustWrap \/ template.wrap = OptWrap
                  THEN "nil" ELSE Absent,
     values   |-> [i \in 1..Len(template.fields) |-> template.fields[i].name]]

ctorDecl(gen, template, sName) ==
    [name     |-> ctorName(gen, sName),
     params   |-> members(template),
     errParam |-> template.wrap = MustWrap,
     holder   |-> IF template.wrap = MustWrap \/ template.wrap = OptWrap
                  THEN (IF template.wrap = MustWrap THEN "err" ELSE "nil")
                  ELSE Absent,
     values   |-> [i \in 1..Len(template.fields) |-> template.fields[i].name]]

\* The statements of the Error method, in order: each returns
\* fmt.Sprintf(fmt, args...), the first one of OptWrap under "if e.cause == nil".
errorMethodNoBranch(template) ==
    IF template.wrap = NoWrap
    THEN <<[ifCauseNil |-> FALSE, fmt |-> template.fmt,
            args |-> fieldArgs(template), cause |-> FALSE]>>
    ELSE <<[ifCauseNil |-> FALSE, fmt |-> template.fmt \o CauseFmt,
            args |-> fieldArgs(template), cause |-> TRUE]>>

errorMethod(template) ==
    IF template.wrap = OptWrap
    THEN <<[ifCauseNil |-> TRUE, fmt |-> template.fmt,
            args |-> fieldArgs(template), cause |-> FALSE],
           [ifCauseNil |-> FALSE, fmt |-> template.fmt \o CauseFmt,
            args |-> fieldArgs(template), cause |-> TRUE]>>
    ELSE IF template.wrap = NoWrap
    THEN <<[ifCauseNil |-> FALSE, fmt |-> template.fmt,
            args |-> fieldArgs(template), cause |-> FALSE]>>
    ELSE <<[ifCauseNil |-> FALSE, fmt |-> template.fmt \o CauseFmt,
            args |-> fieldArgs(template), cause |-> TRUE]>>

\* Whether the Wrap method is emitted.
wrapMethod(template) == template.wrap # NoWrap

\* The Is method: its parameter type and the sentinel it compares with.
isMethod(gen, spec) ==
    [param |-> IF gen.compatIs THEN ErrorType ELSE TypeName, sentinel |-> spec.name]

\* generate(spec): the declaration group appended to the buffer, or the
\* fatal exit of parseTemplate.
generate(gen, spec) ==
    LET sName    == structName(gen, spec.name)
        template == parseTemplate(spec.template)
    IN  IF template.fatal THEN [fatal |-> TRUE]
        ELSE [fatal  |-> FALSE,
              kind   |-> "error",
              spec   |-> spec.name,
              mode   |-> template.wrap,
              struct |-> structDecl(template, sName),
              ctor   |-> ctorDecl(gen, template, sName),
              error  |-> errorMethod(template),
              wrap   |-> wrapMethod(template),
              is     |-> isMethod(gen, spec)]

\* format.Source parses the buffer: the template text is written between
\* double quotes as it is, so a quote or a backslash in it leaves text the
\* Go parser rejects; format.Source then returns no text and an error.
SyntaxOK(buf) ==
    \A i \in 1..Len(buf) :
        buf[i].kind = "error" =>
            \A k \in 1..Len(buf[i].error) :
                \A j \in 1..Len(buf[i].error[k].fmt) :
                    buf[i].error[k].fmt[j] \notin {"\"", "\\"}

FormatSource(buf) ==
    IF SyntaxOK(buf) THEN [src |-> buf, err |-> FALSE]
    ELSE [src |-> <<>>, err |-> TRUE]

(***************************************************************************)
(* main: header, the loop over the specs, format, write                    *)
(***************************************************************************)
\* len(g.specs) < 1: "no errors of type T found", return.
NoSpecs ==
    /\ pc = "loaded" /\ Len(g.specs) < 1
    /\ pc' = "done"
    /\ UNCHANGED <<g, idx, out, warned, src, nameOut, tmplIn, tmplOut, heap, ret>>

Header ==
    /\ pc = "loaded" /\ Len(g.specs) >= 1
    /\ g' = [g EXCEPT !.buf = Append(g.buf, header(g))]
    /\ idx' = 1
    /\ pc' = "generate"
    /\ UNCHANGED <<out, warned, src, nameOut, tmplIn, tmplOut, heap, ret>>

\* One turn of the loop "for _, err := range g.specs { g.generate(err) }".
nextSpecLast(gen, i) == gen.specs[Len(gen.specs) + 1 - i]

nextSpec(gen, i) == gen.specs[i]

Generate ==
    /\ pc = "generate" /\ idx <= Len(g.specs)
    /\ LET d == generate(g, nextSpec(g, idx))
       IN  /\ ~d.fatal
           /\ g' = [g EXCEPT !.buf = Append(g.buf, d)]
    /\ idx' = idx + 1
    /\ UNCHANGED <<pc, out, warned, src, nameOut, tmplIn, tmplOut, heap, ret>>

GenerateFatal ==
    /\ pc = "generate" /\ idx <= Len(g.specs)
    /\ generate(g, nextSpec(g, idx)).fatal
    /\ pc' = "fatal"
    /\ UNCHANGED <<g, idx, out, warned, src, nameOut, tmplIn, tmplOut, heap, ret>>

\* g.format(): a formatting error is logged as a warning, and is fatal when
\* the text returned is empty.
Format ==
    /\ pc = "generate" /\ idx > Len(g.specs)
    /\ LET r == FormatSource(g.buf)
       IN  /\ warned' = r.err
           /\ src' = r.src
           /\ pc' = IF r.err /\ Len(r.src) = 0 THEN "fatal" ELSE "write"
    /\ UNCHANGED <<g, idx, out, nameOut, tmplIn, tmplOut, heap, ret>>

\* os.WriteFile(outputName, src, 0644); its failure is fatal.
Write ==
    /\ pc = "write"
    /\ \E ok \in BOOLEAN :
        IF ok THEN out' = src /\ pc' = "done"
        ELSE out' = out /\ pc' = "fatal"
    /\ UNCHANGED <<g, idx, warned, src, nameOut, tmplIn, tmplOut, heap, ret>>

(***************************************************************************)
(* Inputs and specifications                                               *)
(***************************************************************************)
MaxSpecs == 2
MaxNameLen == 3
MaxSuffixLen == 2
MaxPieces == 4

Idle == [typeName |-> TypeName, compatIs |-> FALSE, makePub |-> FALSE,
         specSuffix |-> <<>>, specs |-> <<>>, buf |-> <<>>]

\* The constant names the scanner may collect (distinct in a Go package).
SpecNames ==
    <<<<"E","r","r","O","p","e","n">>,
      <<"E","r","r","R","e","a","d">>,
      <<"E","r","r","S","o","m","e">>,
      <<"E","r","r","F","i","l","e","O","p">>>>

\* The raw templates of the runs: the three prefixes with and without
\* fields, a prefix in another case, an accessor that does not parse, an
\* accessor that is a literal, a quoted text.
GenTemplates ==
    {<<"o"," ","{","{","f"," ","s"," ","%","q","}","}">>,
     <<"w","r","a","p",":","e">>,
     <<"n","o","w","r","a","p",":","e">>,
     <<"{","{","o","p"," ","s"," ","%","s","}","}"," ","{","{","c",".","F","[","0","]"," ","T"," ","%","d","}","}">>,
     <<"w","r","a","p",":","{","{","a"," ","t"," ","%","v","}","}">>,
     <<"n","o","w","r","a","p",":","{","{","a"," ","t"," ","%","v","}","}">>,
     <<"W","r","a","p",":","x">>,
     <<"b","a","d"," ","{","{","a","["," ","t"," ","%","v","}","}">>,
     <<"{","{","0"," ","t"," ","%","v","}","}">>,
     <<"s","a","y"," ","\"","x","\"">>}

Distinct(sp) == \A i, j \in 1..Len(sp) : sp[i].name = sp[j].name => i = j

SpecSeqs ==
    {sp \in SeqsUpTo({[name |-> SpecNames[n], template |-> t] :
                         n \in 1..MaxSpecs, t \in GenTemplates}, MaxSpecs) :
        Distinct(sp)}

InitGen ==
    /\ g \in {[typeName |-> TypeName, compatIs |-> c, makePub |-> p,
               specSuffix |-> <<>>, specs |-> sp, buf |-> <<>>] :
                 c \in BOOLEAN, p \in BOOLEAN, sp \in SpecSeqs}
    /\ pc = "loaded"
    /\ idx = 0
    /\ out = Absent
    /\ warned = FALSE
    /\ src = <<>>
    /\ nameOut = Absent
    /\ tmplIn = <<>>
    /\ tmplOut = Absent
    /\ heap = <<>>
    /\ ret = Absent

NextGen == NoSpecs \/ Header \/ Generate \/ GenerateFatal \/ Format \/ Write

SpecGen == InitGen /\ [][NextGen]_vars

\* The naming functions on every identifier over NameRunes.
NameRunes == {"E", "e", "r", "_"}

NameSet == {n \in SeqsUpTo(NameRunes, MaxNameLen) : Len(n) >= 1}

InitName ==
    /\ g \in {[typeName |-> TypeName, compatIs |-> FALSE, makePub |-> p,
               specSuffix |-> sfx, specs |-> <<[name |-> n, template |-> <<>>]>>,
               buf |-> <<>>] :
                 p \in BOOLEAN, sfx \in SeqsUpTo(NameRunes, MaxSuffixLen), n \in NameSet}
    /\ pc = "name"
    /\ idx = 0
    /\ out = Absent
    /\ warned = FALSE
    /\ src = <<>>
    /\ nameOut = Absent
    /\ tmplIn = <<>>
    /\ tmplOut = Absent
    /\ heap = <<>>
    /\ ret = Absent

\* The two names generate() derives from the spec name.
ApplyNaming ==
    /\ pc = "name"
    /\ nameOut' = [struct |-> structName(g, g.specs[1].name),
                   ctor   |-> ctorName(g, structName(g, g.specs[1].name))]
    /\ pc' = "named"
    /\ UNCHANGED <<g, idx, out, warned, src, tmplIn, tmplOut, heap, ret>>

NextName == ApplyNaming

SpecName == InitName /\ [][NextName]_vars

\* parseTemplate on every concatenation of at most MaxPieces pieces.
Pieces ==
    {<<"{","{","a"," ","t"," ","%","v","}","}">>,
     <<"{","{","a"," ","t"," ">>,
     <<"}","}">>,
     <<"x">>,
     <<"{","{","c",".","F","[","0","]"," ","*","T"," ","%","d","}","}">>,
     <<"{","{","a","["," ","t"," ","%","v","}","}">>,
     <<"w","r","a","p",":">>,
     <<"n","o","w","r","a","p",":">>}

RECURSIVE Concat(_)
Concat(ps) == IF ps = <<>> THEN <<>> ELSE Head(ps) \o Concat(Tail(ps))

Templates == {Concat(ps) : ps \in SeqsUpTo(Pieces, MaxPieces)}

InitTmpl ==
    /\ tmplIn \in Templates
    /\ tmplOut = Absent
    /\ pc = "template"
    /\ g = Idle
    /\ idx = 0
    /\ out = Absent
    /\ warned = FALSE
    /\ src = <<>>
    /\ nameOut = Absent
    /\ heap = <<>>
    /\ ret = Absent

ApplyParseTemplate ==
    /\ pc = "template"
    /\ tmplOut' = parseTemplate(tmplIn)
    /\ pc' = "parsed"
    /\ UNCHANGED <<g, idx, out, warned, src, nameOut, tmplIn, heap, ret>>

NextTmpl == ApplyParseTemplate

SpecTmpl == InitTmpl /\ [][NextTmpl]_vars

(***************************************************************************)
(* The generated program at run time.  g.buf holds the emitted text: the   *)
(* header, then one declaration group per spec; an error value is an       *)
(* object of one of the emitted struct types, or a foreign error.          *)
(***************************************************************************)
MaxObjs == 3

\* The nil error; an error value is nil or a reference 1..Len(heap).
Nil == 0

FieldVals == {"v1"}

Refs == 1..Len(heap)

\* The declaration group of a generated object's type.
Decl(o) == g.buf[o.typ + 1]

\* Method sets.  *T has Unwrap when T embeds _errWrap (promoted from the
\* header's declaration); a foreign error has it when it wraps another
\* error.  *T has Is(Err) when the Is method takes the sentinel type.
HasUnwrap(o) ==
    IF o.kind = "gen" THEN Decl(o).struct.embeds /\ g.buf[1].unwrap
    ELSE o.holder

HasIs(o) == o.kind = "gen" /\ Decl(o).is.param = TypeName

\* func (*T) Is(e Err) bool { return e == <spec name> }
Is(o, sentinel) == sentinel = Decl(o).is.sentinel

\* errors.Unwrap(err): the result of err's Unwrap method, nil without one.
errorsUnwrap(h, err) ==
    IF err = Nil THEN Nil
    ELSE IF HasUnwrap(h[err]) THEN h[err].cause ELSE Nil

\* errors.As(err, &ei) for ei of type interface{ Is(Err) bool; Unwrap() error }:
\* the first error of err's chain that has both methods, nil when none.
\* fuel bounds the walk by the number of objects: a chain without such a
\* node ends within that many steps.
errorsAsNoWalk(h, err, fuel) ==
    IF err = Nil \/ fuel = 0 THEN Nil
    ELSE IF HasIs(h[err]) /\ HasUnwrap(h[err]) THEN err
    ELSE Nil

RECURSIVE errorsAs(_, _, _)
errorsAs(h, err, fuel) ==
    IF err = Nil \/ fuel = 0 THEN Nil
    ELSE IF HasIs(h[err]) /\ HasUnwrap(h[err]) THEN err
    ELSE errorsAs(h, errorsUnwrap(h, err), fuel - 1)

True == "true"

False == "false"

Overflow == "stack overflow"

\* func (e Err) IsIn(err error) bool.  The recursion never returns on a
\* cyclic chain without a match: the walk is deterministic, so more than
\* Len(h) calls repeat a node, and the goroutine's stack overflows.
IsInNoRecursion(h, e, err, fuel) ==
    LET ei == errorsAs(h, err, Len(h) + 1)
    IN  IF ei = Nil THEN False ELSE IF Is(h[ei], e) THEN True ELSE False

RECURSIVE IsIn(_, _, _, _)
IsIn(h, e, err, fuel) ==
    LET ei == errorsAs(h, err, Len(h) + 1)
    IN  IF ei = Nil THEN False
        ELSE IF Is(h[ei], e) THEN True
        ELSE IF fuel = 0 THEN Overflow
        ELSE IsIn(h, e, h[ei].cause, fuel - 1)

\* The object a constructor returns: &T{_errWrap{<holder>}, <values>...}.
newObject(i, args, err) ==
    LET c == g.buf[i + 1].ctor
    IN  [kind   |-> "gen",
         typ    |-> i,
         fields |-> args,
         holder |-> c.holder # Absent,
         cause  |-> IF c.holder = "err" THEN err ELSE Nil]

\* func (e *T) Wrap(cause error) error { e.cause = cause; return e }
WrapCopies(h, r, cause) ==
    [heap |-> Append(h, [h[r] EXCEPT !.cause = cause]), val |-> Len(h) + 1]

Wrap(h, r, cause) ==
    [heap |-> [h EXCEPT ![r].cause = cause], val |-> r]

\* The position of the struct member an accessor e.<val> is rooted at.
memberOf(d, val) ==
    CHOOSE k \in 1..Len(d.struct.members) : d.struct.members[k].name = findExprRoot(val)

\* func (e *T) Error() string: the first return statement whose guard
\* holds; the value is fmt.Sprintf's format and its arguments.
Error(h, r) ==
    LET o  == h[r]
        d  == Decl(o)
        k  == CHOOSE k \in 1..Len(d.error) :
                 /\ d.error[k].ifCauseNil => o.cause = Nil
                 /\ \A j \in 1..(k - 1) : d.error[j].ifCauseNil /\ o.cause # Nil
        st == d.error[k]
    IN  [fmt  |-> st.fmt,
         args |-> [a \in 1..Len(st.args) |->
                      [acc |-> st.args[a], of |-> o.fields[memberOf(d, st.args[a])]]]
                  \o (IF st.cause THEN <<o.cause>> ELSE <<>>)]

\* The program of the run-time specification: one spec per wrap mode.
ProgSpecs ==
    <<[name |-> SpecNames[1], template |-> <<"o"," ","{","{","f"," ","s"," ","%","q","}","}">>],
      [name |-> SpecNames[2], template |-> <<"w","r","a","p",":","r">>],
      [name |-> SpecNames[3], template |-> <<"n","o","w","r","a","p",":","n">>]>>

\* The text main emits for gen: the header, then generate() of each spec.
Emitted(gen) ==
    <<header(gen)>> \o [i \in 1..Len(gen.specs) |-> generate(gen, gen.specs[i])]

InitRun ==
    /\ g \in {[typeName |-> TypeName, compatIs |-> c, makePub |-> FALSE,
               specSuffix |-> <<>>, specs |-> ProgSpecs,
               buf |-> Emitted([typeName |-> TypeName, compatIs |-> c,
                                makePub |-> FALSE, specSuffix |-> <<>>,
                                specs |-> ProgSpecs, buf |-> <<>>])] :
                 c \in BOOLEAN}
    /\ pc = "run"
    /\ heap = <<>>
    /\ ret = [op |-> "none"]
    /\ idx = 0
    /\ out = Absent
    /\ warned = FALSE
    /\ src = <<>>
    /\ nameOut = Absent
    /\ tmplIn = <<>>
    /\ tmplOut = Absent

Errs == {Nil} \cup Refs

\* e := newT(args...) or newT(args..., err)
NewGen ==
    /\ pc = "run" /\ Len(heap) < MaxObjs
    /\ \E i \in 1..Len(g.specs) :
        LET c == g.buf[i + 1].ctor
        IN  \E args \in [1..Len(c.params) -> FieldVals] :
            \E err \in (IF c.errParam THEN Errs ELSE {Nil}) :
                /\ heap' = Append(heap, newObject(i, args, err))
                /\ ret' = [op |-> "New", typ |-> i, arg |-> err, val |-> Len(heap) + 1]
    /\ UNCHANGED <<g, pc, idx, out, warned, src, nameOut, tmplIn, tmplOut>>

\* x := errors.New("...") or x := fmt.Errorf("...: %w", err)
NewExt ==
    /\ pc = "run" /\ Len(heap) < MaxObjs
    /\ \E c \in Errs :
        /\ heap' = Append(heap, [kind |-> "ext", typ |-> 0, fields |-> <<>>,
                                 holder |-> c # Nil, cause |-> c])
        /\ ret' = [op |-> "NewExt", arg |-> c, val |-> Len(heap) + 1]
    /\ UNCHANGED <<g, pc, idx, out, warned, src, nameOut, tmplIn, tmplOut>>

\* e.Wrap(cause), for e of a type that has the method
CallWrap ==
    /\ pc = "run"
    /\ \E r \in Refs, c \in Errs :
        /\ heap[r].kind = "gen" /\ Decl(heap[r]).wrap
        /\ LET w == Wrap(heap, r, c)
           IN  /\ heap' = w.heap
               /\ ret' = [op |-> "Wrap", recv |-> r, arg |-> c, val |-> w.val]
    /\ UNCHANGED <<g, pc, idx, out, warned, src, nameOut, tmplIn, tmplOut>>

\* e.Error() and S.IsIn(err) change nothing, so every state they can be
\* called in is a state before the call: a behaviour is a run of the
\* program up to one such observation.
CallError ==
    /\ pc = "run"
    /\ \E r \in Refs :
        /\ heap[r].kind = "gen"
        /\ ret' = [op |-> "Error", recv |-> r, val |-> Error(heap, r)]
    /\ pc' = "observed"
    /\ UNCHANGED <<g, idx, out, warned, src, nameOut, tmplIn, tmplOut, heap>>

\* S.IsIn(err), emitted when compatIs is off
CallIsIn ==
    /\ pc = "run" /\ g.buf[1].isIn
    /\ \E s \in 1..Len(g.specs), err \in Errs :
        ret' = [op |-> "IsIn", recv |-> s, arg |-> err,
                val |-> IsIn(heap, g.specs[s].name, err, Len(heap))]
    /\ pc' = "observed"
    /\ UNCHANGED <<g, idx, out, warned, src, nameOut, tmplIn, tmplOut, heap>>

NextRun == NewGen \/ NewExt \/ CallWrap \/ CallError \/ CallIsIn

SpecRun == InitRun /\ [][NextRun]_vars

(***************************************************************************)
(* Properties                                                              *)
(***************************************************************************)
\* The wrap mode a raw template asks for, by its literal prefix.
ModeName(template) ==
    IF HasPrefix(template, <<"w","r","a","p",":">>) THEN "Required"
    ELSE IF HasPrefix(template, <<"n","o","w","r","a","p",":">>) THEN "Forbidden"
    ELSE "Optional"

\* The raw template without its wrap prefix.
Stripped(template) ==
    IF ModeName(template) = "Required" THEN SubSeq(template, 6, Len(template))
    ELSE IF ModeName(template) = "Forbidden" THEN SubSeq(template, 8, Len(template))
    ELSE template

\* The message text of object o: the residual format string of its spec
\* applied to the field accessors, one per placeholder.
TextOf(o) ==
    LET t == parseTemplate(g.specs[o.typ].template)
    IN  [fmt  |-> t.fmt,
         args |-> [k \in 1..Len(t.fields) |-> [acc |-> t.fields[k].val, of |-> o.fields[k]]]]

WithCause(text, cause) ==
    [fmt |-> text.fmt \o <<":"," ","%","v">>, args |-> text.args \o <<cause>>]

\* C1: Error() is decided by the cause the error holds when it is called.
\* Optional: the text alone when the cause is nil, the text followed by
\* ": <cause>" otherwise; Required: always the text followed by
\* ": <cause>"; Forbidden: always the text alone.
C1_ErrorByCurrentCause ==
    ret.op = "Error" =>
        LET o    == heap[ret.recv]
            mode == ModeName(g.specs[o.typ].template)
        IN  ret.val =
                IF mode = "Optional"
                THEN (IF o.cause = Nil THEN TextOf(o) ELSE WithCause(TextOf(o), o.cause))
                ELSE IF mode = "Required" THEN WithCause(TextOf(o), o.cause)
                ELSE TextOf(o)

\* An Optional error that was wrapped, and whose Error() then named the cause.
C1_Witness ==
    /\ ret.op = "Error"
    /\ ModeName(g.specs[heap[ret.recv].typ].template) = "Optional"
    /\ heap[ret.recv].cause # Nil
    /\ ret.val = WithCause(TextOf(heap[ret.recv]), heap[ret.recv].cause)

\* C2: the declarations emitted for a spec match the wrap mode its template
\* asks for by prefix: the struct embeds _errWrap iff the mode is not
\* Forbidden; the constructor takes a trailing cause parameter iff the mode
\* is Required, and initialises the holder with it (Required) or with nil
\* (Optional); Wrap is emitted iff the mode is not Forbidden.
C2_DeclarationsMatchMode ==
    \A i \in 2..Len(g.buf) :
        LET d    == g.buf[i]
            mode == ModeName(g.specs[i - 1].template)
        IN  /\ d.struct.embeds = (mode # "Forbidden")
            /\ d.ctor.errParam = (mode = "Required")
            /\ d.ctor.holder = (IF mode = "Required" THEN "err"
                                ELSE IF mode = "Optional" THEN "nil" ELSE Absent)
            /\ d.wrap = (mode # "Forbidden")

\* A written output with a Required and a Forbidden spec.
C2_Witness ==
    /\ pc = "done" /\ out # Absent /\ Len(g.buf) = 3
    /\ \E i, j \in 1..2 :
        /\ ModeName(g.specs[i].template) = "Required" /\ g.buf[i + 1].ctor.errParam
        /\ ModeName(g.specs[j].template) = "Forbidden" /\ ~g.buf[j + 1].wrap

\* The nodes reachable from err by repeatedly unwrapping.
RECURSIVE ReachFrom(_, _, _)
ReachFrom(h, err, seen) ==
    IF err = Nil \/ err \in seen THEN seen
    ELSE ReachFrom(h, errorsUnwrap(h, err), seen \cup {err})

\* C3: S.IsIn(err) returns true if and only if some node reachable from
\* err by repeatedly unwrapping is a generated error whose Is accepts S.
C3_IsInIffReachable ==
    ret.op = "IsIn" =>
        ((ret.val = True) <=>
            \E n \in ReachFrom(heap, ret.arg, {}) :
                heap[n].kind = "gen" /\ Is(heap[n], g.specs[ret.recv].name))

\* The chain from n down to an external cause: the nodes n, n's cause, ...
\* while they are generated wrap-capable errors, ending with the first
\* foreign error; <<>> when the walk ends on nil or on an error that
\* cannot wrap, or does not end.
RECURSIVE ChainFrom(_, _, _)
ChainFrom(h, n, fuel) ==
    IF n = Nil \/ fuel = 0 THEN <<>>
    ELSE IF h[n].kind = "ext" THEN <<n>>
    ELSE IF ~h[n].holder THEN <<>>
    ELSE LET below == ChainFrom(h, h[n].cause, fuel - 1)
         IN  IF below = <<>> THEN <<>> ELSE <<n>> \o below

\* errors.Unwrap applied k times.
RECURSIVE UnwrapTimes(_, _, _)
UnwrapTimes(h, err, k) ==
    IF k = 0 THEN err ELSE UnwrapTimes(h, errorsUnwrap(h, err), k - 1)

\* C4: in a chain of generated wrap-capable errors nested over an external
\* cause x, S.IsIn(top) is true for the spec S of every generated error of
\* the chain, and unwrapping from the top repeatedly reaches x.
C4_ChainFindsEverySpec ==
    \A top \in Refs :
        LET chain == ChainFrom(heap, top, Len(heap))
        IN  (g.buf[1].isIn /\ Len(chain) >= 2) =>
                /\ \A k \in 1..(Len(chain) - 1) :
                      IsIn(heap, Decl(heap[chain[k]]).spec, top, Len(heap)) = True
                /\ UnwrapTimes(heap, top, Len(chain) - 1) = chain[Len(chain)]

\* IsIn on the top of a two-level chain found the spec of the lower error.
C4_Witness ==
    /\ ret.op = "IsIn" /\ ret.arg # Nil /\ ret.val = True
    /\ LET chain == ChainFrom(heap, ret.arg, Len(heap))
       IN  /\ Len(chain) = 3
           /\ Decl(heap[chain[2]]).spec = g.specs[ret.recv].name
           /\ Decl(heap[chain[1]]).spec # g.specs[ret.recv].name

\* C5: Wrap(cause) sets the cause holder to the supplied cause, returns
\* the instance it was called on, and changes neither the fields of that
\* error nor any other error.
C5_WrapSetsCauseReturnsSelf ==
    [][ret'.op = "Wrap" =>
        LET r == ret'.recv
        IN  /\ ret'.val = r
            /\ Len(heap') = Len(heap)
            /\ heap'[r].cause = ret'.arg
            /\ heap'[r].fields = heap[r].fields
            /\ heap'[r].typ = heap[r].typ
            /\ \A q \in Refs \ {r} : heap'[q] = heap[q]]_vars

\* A Wrap with a non-nil cause on an error that has a field.
C5_Witness ==
    /\ ret.op = "Wrap" /\ ret.arg # Nil /\ ret.val = ret.recv
    /\ heap[ret.recv].cause = ret.arg
    /\ Len(heap[ret.recv].fields) > 0

\* The template with every match replaced, where it was matched, by its verb.
RECURSIVE ReplaceAt(_, _, _, _)
ReplaceAt(s, matches, k, from) ==
    IF k > Len(matches) THEN SubSeq(s, from, Len(s))
    ELSE SubSeq(s, from, matches[k].pos - 1) \o matches[k].verb
         \o ReplaceAt(s, matches, k + 1, matches[k].end + 1)

\* C6: the residual format string is the template (without its wrap
\* prefix) with each placeholder token replaced, at the position where it
\* was matched, by its verb, every other character unchanged.
C6_ResidualReplacesInPlace ==
    (pc = "parsed" /\ ~tmplOut.fatal) =>
        LET rest == Stripped(tmplIn)
        IN  tmplOut.fmt = ReplaceAt(rest, FindAllStringSubmatch(rest), 1, 1)

\* C7: the written text is the preamble once, then one declaration group
\* per spec in input order; in each group there is one field per
\* placeholder match, and the struct members, the constructor parameters
\* and the formatting arguments are in match order.
C7_OrderPreserved ==
    out # Absent =>
        /\ Len(out) = Len(g.specs) + 1
        /\ out[1].kind = "header"
        /\ \A i \in 1..Len(g.specs) :
            LET d  == out[i + 1]
                ms == FindAllStringSubmatch(Stripped(g.specs[i].template))
            IN  /\ d.kind = "error"
                /\ d.spec = g.specs[i].name
                /\ Len(d.struct.members) = Len(ms)
                /\ Len(d.ctor.params) = Len(ms)
                /\ Len(d.ctor.values) = Len(ms)
                /\ \A k \in 1..Len(ms) :
                    /\ d.struct.members[k].name = findExprRoot(ms[k].expr)
                    /\ d.struct.members[k].typ = ms[k].typ
                    /\ d.ctor.params[k] = d.struct.members[k]
                    /\ d.ctor.values[k] = d.struct.members[k].name
                /\ \A n \in 1..Len(d.error) :
                    /\ Len(d.error[n].args) = Len(ms)
                    /\ \A k \in 1..Len(ms) : d.error[n].args[k] = ms[k].expr

\* A written text of two groups, one of them with two fields.
C7_Witness ==
    /\ out # Absent /\ Len(out) = 3
    /\ \E i \in 2..3 : Len(out[i].struct.members) = 2

\* C8, as claimed: the first rune of the constructor's identifier is
\* upper-case whether makePublic is true or false.
C8_CtorAlwaysTitleCase == pc = "named" => IsUpper(nameOut.ctor[1])

\* C8, amended: the constructor's identifier is "new" (makePublic false)
\* or "New" (makePublic true) followed by the declared-type name with its
\* first rune upper-cased; its own first rune is upper-case iff makePublic.
C8_CtorPrefixThenTitledName ==
    pc = "named" =>
        /\ IsUpper(nameOut.ctor[1]) = g.makePub
        /\ SubSeq(nameOut.ctor, 1, 3) =
               (IF g.makePub THEN <<"N","e","w">> ELSE <<"n","e","w">>)
        /\ SubSeq(nameOut.ctor, 4, Len(nameOut.ctor)) =
               <<ToUpper(nameOut.struct[1])>> \o Tail(nameOut.struct)

\* A private constructor: lower-case "new", then the name capitalised.
C8_Witness ==
    /\ pc = "named" /\ ~g.makePub
    /\ nameOut.ctor[1] = "n"
    /\ IsLower(nameOut.struct[1]) /\ IsUpper(nameOut.ctor[4])

\* The name with the case of its first rune set by makePublic.
Flip(gen, s) ==
    IF s = <<>> THEN <<>>
    ELSE <<IF gen.makePub THEN ToUpper(s[1]) ELSE ToLower(s[1])>> \o Tail(s)

\* C9, as claimed: when the spec name ends with the non-empty suffix,
\* structName returns the case-flipped name without that tail; otherwise
\* nothing is removed.
C9_TrimsWhenNameEndsWithSuffix ==
    pc = "named" =>
        LET name == g.specs[1].name
            sfx  == g.specSuffix
        IN  nameOut.struct =
                IF Len(sfx) > 0 /\ HasSuffix(name, sfx)
                THEN Flip(g, SubSeq(name, 1, Len(name) - Len(sfx)))
                ELSE Flip(g, name)

\* C9, amended: the tail is removed, once, when the suffix is not empty
\* and the name after its first rune ends with it; otherwise (the suffix is
\* empty, is not the tail, or reaches the first rune) nothing is removed.
C9_TrimsWhenRestEndsWithSuffix ==
    pc = "named" =>
        LET name == g.specs[1].name
            sfx  == g.specSuffix
        IN  nameOut.struct =
                IF Len(sfx) > 0 /\ HasSuffix(Tail(name), sfx)
                THEN Flip(g, SubSeq(name, 1, Len(name) - Len(sfx)))
                ELSE Flip(g, name)

\* A name that ends twice with the suffix: one tail is removed.
C9_Witness ==
    /\ pc = "named" /\ Len(g.specSuffix) > 0
    /\ HasSuffix(Tail(g.specs[1].name), g.specSuffix)
    /\ HasSuffix(nameOut.struct, g.specSuffix)
    /\ Len(nameOut.struct) = Len(g.specs[1].name) - Len(g.specSuffix)

\* C10, as claimed: with an empty suffix the first rune of the result is
\* lower-case (makePublic false) or upper-case (makePublic true), and the
\* runes after the first are unchanged.
C10_FirstRuneHasTheCase ==
    (pc = "named" /\ g.specSuffix = <<>>) =>
        /\ IF g.makePub THEN IsUpper(nameOut.struct[1]) ELSE IsLower(nameOut.struct[1])
        /\ Tail(nameOut.struct) = Tail(g.specs[1].name)

\* C10, amended: with an empty suffix the first rune of the result is the
\* name's first rune mapped to lower case (makePublic false) or upper case
\* (makePublic true): of that case when the rune is a cased letter, and
\* the rune itself when it has no case; the runes after it are unchanged.
C10_FirstRuneMappedToTheCase ==
    (pc = "named" /\ g.specSuffix = <<>>) =>
        LET c == g.specs[1].name[1]
        IN  /\ c \in Letters =>
                 IF g.makePub THEN IsUpper(nameOut.struct[1])
                 ELSE IsLower(nameOut.struct[1])
            /\ c \in Letters => ToLower(nameOut.struct[1]) = ToLower(c)
            /\ c \notin Letters => nameOut.struct[1] = c
            /\ Tail(nameOut.struct) = Tail(g.specs[1].name)

\* An upper-case first rune made lower-case, the rest kept.
C10_Witness ==
    /\ pc = "named" /\ g.specSuffix = <<>> /\ ~g.makePub
    /\ IsUpper(g.specs[1].name[1]) /\ IsLower(nameOut.struct[1])
    /\ Len(g.specs[1].name) > 1

\* The positions of the specs that have a placeholder whose accessor does
\* not parse as an expression or has no identifier root.
BadSpecs ==
    {i \in 1..Len(g.specs) :
        LET ms == FindAllStringSubmatch(Stripped(g.specs[i].template))
        IN  \E k \in 1..Len(ms) :
                ~ParseExprOK(ms[k].expr) \/ findExprRoot(ms[k].expr) = <<>>}

\* C11: when some spec of the run has a placeholder whose accessor cannot
\* be parsed or has no identifier root, nothing is ever written and the run
\* never gets to formatting or to its normal end, wherever that spec stands
\* in the input; once the loop has gone past the specs before it, the run
\* is in the fatal state.
C11_BadAccessorIsFatal ==
    BadSpecs # {} =>
        /\ out = Absent
        /\ pc \in {"loaded", "generate", "fatal"}
        /\ \A i \in BadSpecs : idx <= i
        /\ pc = "fatal" => idx \in BadSpecs

\* A run that is fatal at its second spec, after the first was generated.
C11_Witness ==
    /\ pc = "fatal" /\ BadSpecs = {2}
    /\ idx = 2 /\ Len(g.buf) = 2 /\ g.buf[2].kind = "error"
    /\ out = Absent

\* C12: when formatting fails (a warning is logged) and the unformatted
\* text is not empty, format() returns the unformatted text and the run
\* goes on with it: the text handed to the write is the emitted buffer.
C12_FormatFailureKeepsText ==
    (warned /\ Len(g.buf) > 0) => src = g.buf

\* C13: on every heap built by constructor calls and Wrap calls, S.IsIn(err)
\* terminates, with true or false, for every sentinel S and every err.
C13_IsInTerminates ==
    ret.op = "IsIn" => ret.val \in {True, False}

\* A node that has the capability pair Is(sentinel) / Unwrap().
Capable(o) == HasIs(o) /\ HasUnwrap(o)

\* C14, as claimed: when err itself lacks the capability pair, S.IsIn(err)
\* is false and the nodes below err are not examined.
C14_FalseAtFirstIncapableNode ==
    (ret.op = "IsIn" /\ ret.arg # Nil /\ ~Capable(heap[ret.arg])) =>
        ret.val = False

\* C14, amended: nodes without the capability pair are unwrapped through.
\* S.IsIn(err) is true exactly when some node reachable from err by
\* unwrapping has the pair and its Is accepts S, and it is false when no
\* reachable node has the pair (err absent included); so for a foreign
\* error that unwraps to a capable generated error of spec S it is true.
C14_IncapableNodesAreSkipped ==
    ret.op = "IsIn" =>
        LET reach == ReachFrom(heap, ret.arg, {})
            S     == g.specs[ret.recv].name
        IN  /\ (ret.val = True) <=>
                    \E n \in reach : Capable(heap[n]) /\ Is(heap[n], S)
            /\ (\A n \in reach : ~Capable(heap[n])) => ret.val = False
            /\ ( /\ ret.arg # Nil /\ heap[ret.arg].kind = "ext"
                 /\ errorsUnwrap(heap, ret.arg) # Nil
                 /\ Capable(heap[errorsUnwrap(heap, ret.arg)])
                 /\ Is(heap[errorsUnwrap(heap, ret.arg)], S) ) => ret.val = True

\* IsIn on a foreign error that only unwraps to a generated error of the
\* sentinel's spec returned true.
C14_Witness ==
    /\ ret.op = "IsIn" /\ ret.arg # Nil /\ ret.val = True
    /\ heap[ret.arg].kind = "ext" /\ ~Capable(heap[ret.arg])
    /\ heap[ret.arg].cause # Nil
    /\ Capable(heap[heap[ret.arg].cause])
    /\ Is(heap[heap[ret.arg].cause], g.specs[ret.recv].name)
====
